---- MODULE Spec2Model ----
(***************************************************************************)
(* Kaspa RPC gateway: the correlation and relay layer.                     *)
(*   src/src/client.rs     KaspaClient (unary calls, subscribe, id counter)*)
(*   src/src/handlers.rs   HTTP handlers get_block / submit_transaction /  *)
(*                         get_dag_tips                                    *)
(*   src/src/websocket.rs  subscribe_utxo / handle_utxo_subscription       *)
(*   src/src/error.rs      RpcError and its HTTP mapping                   *)
(*   src/src/metrics.rs    record_latency                                  *)
(* Option<T> is a sequence: << >> is None, <<x>> is Some(x).               *)
(* A String is a TLA+ string, except where its characters are inspected    *)
(* (block hash, address query), where it is a sequence of one-character    *)
(* strings.                                                                *)
(***************************************************************************)
EXTENDS Integers, Sequences, FiniteSets, TLC

\* ------------------------------------------------------------------ bounds
\* Number of concurrent tasks (HTTP requests, client calls, WebSocket upgrades).
NumTasks == 2
\* Number of generate_request_id calls in a run of the counter alone.
MaxCalls == 4
\* Total number of envelopes the node sends, over all streams.
MaxNodeMsgs == 2

\* the tasks serving unary calls, and the task serving the WebSocket connection
Tasks == 1..NumTasks
Relay == NumTasks + 1
AllTasks == Tasks \cup {Relay}

None == << >>
Some(x) == <<x>>
IsSome(o) == Len(o) = 1
Unwrap(o) == o[1]

\* ------------------------------------------------- correlation id (u64)
\* AtomicU64 as NumLimbs big-endian limbs of LimbBits bits (4 x 16 = 64).
NumLimbs == 4
LimbBits == 16
LimbBase == 2 ^ LimbBits

\* static COUNTER: AtomicU64 = AtomicU64::new(1)
CounterInit == [i \in 1..NumLimbs |-> IF i = NumLimbs THEN 1 ELSE 0]

\* carry into limb i when 1 is added: all less significant limbs are at max
Carry(c, i) == \A j \in (i + 1)..NumLimbs : c[j] = LimbBase - 1

\* a mutant: the carry out of the lowest limb is lost (a 16-bit counter)
fetch_add_no_carry(c) ==
    [i \in 1..NumLimbs |-> IF i = NumLimbs THEN (c[i] + 1) % LimbBase ELSE c[i]]

\* a mutant: the counter is not advanced
fetch_add_stuck(c) == c

\* COUNTER.fetch_add(1, _): the stored value after the call, wrapping at 2^64
fetch_add(c) == [i \in 1..NumLimbs |-> IF Carry(c, i) THEN (c[i] + 1) % LimbBase ELSE c[i]]

\* a < b as unsigned 64-bit integers
U64Less(a, b) ==
    \E i \in 1..NumLimbs : a[i] < b[i] /\ \A j \in 1..(i - 1) : a[j] = b[j]

U64Zero == [i \in 1..NumLimbs |-> 0]

\* ------------------------------------------------------------ RpcError
RpcErr(variant, msg) == [variant |-> variant, msg |-> msg]

\* StatusCode of each RpcError variant
StatusOf(variant) ==
    CASE variant = "Connection" -> 502
      [] variant = "Kaspa" -> 400
      [] variant = "InvalidResponse" -> 500
      [] variant = "Auth" -> 401
      [] variant = "BadRequest" -> 400
      [] variant = "Internal" -> 500

\* impl IntoResponse for RpcError: (status, Json(ErrorResponse{error, code}))
into_response(e) ==
    [status |-> StatusOf(e.variant), error |-> e.msg, code |-> StatusOf(e.variant)]

Ok(v) == [ok |-> TRUE, val |-> v]
Err(e, kind) == [ok |-> FALSE, err |-> e, kind |-> kind]

\* ------------------------------------------------------ block hash input
HexDigits == {"0", "1", "2", "3", "4", "5", "6", "7", "8", "9",
              "a", "b", "c", "d", "e", "f", "A", "B", "C", "D", "E", "F"}

HashLen == 64

\* a mutant: only the length is checked
is_valid_hash_length_only(hash) == Len(hash) = HashLen

\* is_valid_hash: 64 characters, all ASCII hex digits
is_valid_hash(hash) == Len(hash) = HashLen /\ \A i \in 1..Len(hash) : hash[i] \in HexDigits

Repeat(ch, n) == [i \in 1..n |-> ch]

\* hashes the HTTP client may post
SampleHashes ==
    { Repeat("a", HashLen),
      <<"s", "h", "o", "r", "t">>,
      Repeat("a", HashLen - 1),
      [i \in 1..HashLen |-> IF i = HashLen THEN "g" ELSE "F"] }

\* ------------------------------------------------------------ envelopes
\* KaspadRequest payload (proto::kaspad_request::Payload), one variant per request
RequestPayload(variant, hash, include_transactions, transaction, allow_orphan, addresses) ==
    [variant |-> variant, hash |-> hash, include_transactions |-> include_transactions,
     transaction |-> transaction, allow_orphan |-> allow_orphan,
     command |-> 0, addresses |-> addresses]

KaspadRequest(id, payload) == [id |-> id, payload |-> Some(payload)]

\* KaspadResponse payload (proto::kaspad_response::Payload); `error` is the RPCError
\* message, `block` the GetBlockResponse's block, `data` the scalar of the other replies
\* (transaction id, tip hash), `added`/`removed` the notification's entries
ResponsePayload(variant, error, block, data, added, removed) ==
    [variant |-> variant, error |-> error, block |-> block, data |-> data,
     added |-> added, removed |-> removed]

UnaryOps == {"get_block", "submit_transaction", "get_dag_tips", "get_utxos_by_addresses"}

\* the response variant each client method matches on
ExpectedVariant(op) ==
    CASE op = "get_block" -> "GetBlockResponse"
      [] op = "submit_transaction" -> "SubmitTransactionResponse"
      [] op = "get_dag_tips" -> "GetBlockDagInfoResponse"
      [] op = "get_utxos_by_addresses" -> "GetUtxosByAddressesResponse"

\* blocks a GetBlockResponse may carry: none, one without header, one with header
SampleBlocks ==
    { None, Some([header |-> None]), Some([header |-> Some([hash |-> "h1"])]) }

\* UtxosChangedNotification entries: every optional sub-field absent / present
EntryBare == [address |-> "addrA", outpoint |-> None, utxo_entry |-> None]
EntryNoScript ==
    [address |-> "addrA",
     outpoint |-> Some([transaction_id |-> "t1", index |-> 0]),
     utxo_entry |-> Some([amount |-> 0, script_public_key |-> None,
                          block_daa_score |-> 0, is_coinbase |-> FALSE])]
EntryFull ==
    [address |-> "addrB",
     outpoint |-> Some([transaction_id |-> "t2", index |-> 1]),
     utxo_entry |-> Some([amount |-> 5,
                          script_public_key |-> Some([script_public_key |-> "s1", version |-> 0]),
                          block_daa_score |-> 7, is_coinbase |-> TRUE])]

SampleNotifications ==
    { ResponsePayload("UtxosChangedNotification", None, None, "", <<EntryBare>>, << >>),
      ResponsePayload("UtxosChangedNotification", None, None, "",
                      <<EntryNoScript, EntryFull>>, <<EntryFull, EntryBare>>) }

Reply(variant, error) == ResponsePayload(variant, error, None, "d1", << >>, << >>)

BlockReply(block) == ResponsePayload("GetBlockResponse", None, block, "", << >>, << >>)

\* the acknowledgement the node sends for a subscribe command
SubscribeAck == ResponsePayload("NotifyUtxosChangedResponse", None, None, "", << >>, << >>)

\* KaspadResponse.payload values the node may put on a stream, by the request it got.
\* A unary stream: the reply of the request's kind with and without the node's error
\* field, a reply of another kind, an envelope without payload.  A subscription:
\* notifications, the acknowledgement, an envelope without payload.
NodePayloads(requestVariant) ==
    CASE requestVariant = "GetBlockRequest" ->
            { Some(BlockReply(b)) : b \in SampleBlocks }
            \cup { Some(ResponsePayload("GetBlockResponse", Some("block not found"), None, "",
                                        << >>, << >>)),
                   Some(Reply("SubmitTransactionResponse", None)), None }
      [] requestVariant = "SubmitTransactionRequest" ->
            { Some(Reply("SubmitTransactionResponse", None)),
              Some(Reply("SubmitTransactionResponse", Some("rejected"))),
              Some(Reply("GetBlockDagInfoResponse", None)), None }
      [] requestVariant = "GetBlockDagInfoRequest" ->
            { Some(Reply("GetBlockDagInfoResponse", None)),
              Some(Reply("GetBlockDagInfoResponse", Some("rejected"))),
              Some(Reply("GetUtxosByAddressesResponse", None)), None }
      [] requestVariant = "GetUtxosByAddressesRequest" ->
            { Some(Reply("GetUtxosByAddressesResponse", None)),
              Some(Reply("GetUtxosByAddressesResponse", Some("rejected"))),
              Some(BlockReply(None)), None }
            \cup { Some(p) : p \in SampleNotifications }
      [] requestVariant = "NotifyUtxosChangedRequest" ->
            { Some(p) : p \in SampleNotifications \cup {SubscribeAck} } \cup {None}

RequestVariants ==
    {"GetBlockRequest", "SubmitTransactionRequest", "GetBlockDagInfoRequest",
     "GetUtxosByAddressesRequest", "NotifyUtxosChangedRequest"}

AllPayloads == UNION { NodePayloads(v) : v \in RequestVariants }

\* ------------------------------------------------------- client.rs, pure
\* a mutant: the request is put on the outbound stream twice
EnvelopeStreamTwice(request) == <<request, request>>

\* tokio_stream::once(request): the outbound half of the stream
EnvelopeStream(request) == <<request>>

\* a mutant: an ended stream is taken for an empty successful reply
FirstResultLenient(item) ==
    CASE item.tag = "none" -> Ok(item.msg)
      [] item.tag = "err" -> Err(RpcErr("Connection", item.status), "ConnectionError")
      [] item.tag = "msg" -> Ok(item.msg)

\* a mutant: an ended stream is reported as a connection failure
FirstResultAsConnection(item) ==
    CASE item.tag = "none" -> Err(RpcErr("Connection", "Empty response stream"), "EmptyResponse")
      [] item.tag = "err" -> Err(RpcErr("Connection", item.status), "ConnectionError")
      [] item.tag = "msg" -> Ok(item.msg)

\* a mutant: a transport error on the stream is reported as an empty stream
FirstResultErrAsEmpty(item) ==
    CASE item.tag = "none" ->
            Err(RpcErr("InvalidResponse", "Empty response stream"), "EmptyResponse")
      [] item.tag = "err" ->
            Err(RpcErr("InvalidResponse", "Empty response stream"), "EmptyResponse")
      [] item.tag = "msg" -> Ok(item.msg)

\* send_request, after stream.next(): None -> InvalidResponse, Some(Err) -> Connection
FirstResult(item) ==
    CASE item.tag = "none" ->
            Err(RpcErr("InvalidResponse", "Empty response stream"), "EmptyResponse")
      [] item.tag = "err" -> Err(RpcErr("Connection", item.status), "ConnectionError")
      [] item.tag = "msg" -> Ok(item.msg)

\* a mutant: the payload is unwrapped without looking at its variant
MatchResponseAnyVariant(op, response) ==
    IF IsSome(response.payload)
    THEN IF IsSome(Unwrap(response.payload).error)
         THEN Err(RpcErr("Kaspa", Unwrap(Unwrap(response.payload).error)), "RemoteError")
         ELSE Ok(Unwrap(response.payload))
    ELSE Err(RpcErr("InvalidResponse", "Expected " \o ExpectedVariant(op)), "ProtocolMismatch")

\* a mutant: the node's error field is not looked at
MatchResponseIgnoreError(op, response) ==
    IF IsSome(response.payload) /\ Unwrap(response.payload).variant = ExpectedVariant(op)
    THEN Ok(Unwrap(response.payload))
    ELSE Err(RpcErr("InvalidResponse", "Expected " \o ExpectedVariant(op)), "ProtocolMismatch")

\* get_block / submit_transaction / get_dag_tips / get_utxos_by_addresses, after
\* send_request returned Ok(response): `if let Some(Payload::X(resp)) = response.payload`
MatchResponse(op, response) ==
    IF IsSome(response.payload) /\ Unwrap(response.payload).variant = ExpectedVariant(op)
    THEN IF IsSome(Unwrap(response.payload).error)
         THEN Err(RpcErr("Kaspa", Unwrap(Unwrap(response.payload).error)), "RemoteError")
         ELSE Ok(Unwrap(response.payload))
    ELSE Err(RpcErr("InvalidResponse", "Expected " \o ExpectedVariant(op)), "ProtocolMismatch")

\* ---------------------------------------------------------- handlers.rs
\* convert_to_proto_transaction: the JSON transaction as a proto RpcTransaction
convert_to_proto_transaction(tx) ==
    [version |-> IF IsSome(tx.version) THEN Unwrap(tx.version) ELSE 0,
     inputs |-> [i \in 1..Len(tx.inputs) |->
                   [previous_outpoint |-> Some(tx.inputs[i].previous_outpoint),
                    signature_script |-> tx.inputs[i].signature_script,
                    sequence |-> tx.inputs[i].sequence,
                    sig_op_count |-> IF IsSome(tx.inputs[i].sig_op_count)
                                     THEN Unwrap(tx.inputs[i].sig_op_count) ELSE 0,
                    verbose_data |-> None]],
     outputs |-> [i \in 1..Len(tx.outputs) |->
                   [amount |-> tx.outputs[i].amount,
                    script_public_key |-> Some(tx.outputs[i].script_public_key),
                    verbose_data |-> None]],
     lock_time |-> IF IsSome(tx.lock_time) THEN Unwrap(tx.lock_time) ELSE 0,
     subnetwork_id |-> IF IsSome(tx.subnetwork_id) THEN Unwrap(tx.subnetwork_id) ELSE "",
     gas |-> IF IsSome(tx.gas) THEN Unwrap(tx.gas) ELSE 0,
     payload |-> IF IsSome(tx.payload) THEN Unwrap(tx.payload) ELSE "",
     mass |-> 0,
     verbose_data |-> None]

\* the transaction the HTTP client may post
SampleTransaction ==
    [version |-> None,
     inputs |-> <<[previous_outpoint |-> [transaction_id |-> "t1", index |-> 0],
                   signature_script |-> "sig", sequence |-> 0, sig_op_count |-> Some(1)]>>,
     outputs |-> <<[amount |-> 5,
                    script_public_key |-> [script_public_key |-> "s1", version |-> 0]]>>,
     lock_time |-> None, subnetwork_id |-> None, gas |-> None, payload |-> Some("p")]

NoTransaction == convert_to_proto_transaction(
    [version |-> None, inputs |-> << >>, outputs |-> << >>, lock_time |-> None,
     subnetwork_id |-> None, gas |-> None, payload |-> None])

\* HTTP reply of a handler: status, the error body or the RpcResponse data
HttpError(e) == [status |-> into_response(e).status, error |-> Some(into_response(e).error),
                 data |-> None]
HttpSuccess(data) == [status |-> 200, error |-> None, data |-> Some(data)]

\* the endpoints that have a latency histogram
HistogramEndpoints == {"get_block", "submit_transaction", "get_dag_tips", "subscribe_utxo"}

\* What a handler does with the client's result: `?` returns the error at once; on
\* Ok it records the latency and converts the payload (get_block: block and header
\* must be present).  error: the RpcError returned, http: its HTTP reply, recorded:
\* record_latency calls, kind: the failure kind.  get_utxos_by_addresses has no
\* handler: the client's result is all there is.
HandlerOutcome(op, result) ==
    IF op = "get_utxos_by_addresses"
    THEN [error |-> IF result.ok THEN None ELSE Some(result.err), http |-> None,
          recorded |-> 0, kind |-> IF result.ok THEN "" ELSE result.kind]
    ELSE IF ~result.ok
    THEN [error |-> Some(result.err), http |-> Some(HttpError(result.err)),
          recorded |-> 0, kind |-> result.kind]
    ELSE IF op # "get_block"
    THEN [error |-> None, http |-> Some(HttpSuccess(result.val.data)),
          recorded |-> 1, kind |-> ""]
    ELSE IF ~IsSome(result.val.block)
    THEN [error |-> Some(RpcErr("InvalidResponse", "Block data missing")),
          http |-> Some(HttpError(RpcErr("InvalidResponse", "Block data missing"))),
          recorded |-> 1, kind |-> "DecodeError"]
    ELSE IF ~IsSome(Unwrap(result.val.block).header)
    THEN [error |-> Some(RpcErr("InvalidResponse", "Block header missing")),
          http |-> Some(HttpError(RpcErr("InvalidResponse", "Block header missing"))),
          recorded |-> 1, kind |-> "DecodeError"]
    ELSE [error |-> None,
          http |-> Some(HttpSuccess(Unwrap(Unwrap(result.val.block).header).hash)),
          recorded |-> 1, kind |-> ""]

\* --------------------------------------------------------- websocket.rs
\* A string is a sequence of characters, a character a one-character string.  The
\* characters with the Unicode property White_Space (char::is_whitespace, which
\* str::trim uses): U+0009..U+000D, U+0020, U+0085, U+00A0, U+1680, U+2000..U+200A,
\* U+2028, U+2029, U+202F, U+205F, U+3000.  Those beyond U+1680 cannot be written in
\* a string of this language; a character may also be given by its code point name.
WhiteSpaceWritten ==
    {" ", "\t", "\n", "\f", "\r", "", "", " ", " "}

WhiteSpaceNamed ==
    {"U+000B", "U+0085", "U+00A0", "U+1680", "U+2000", "U+2001", "U+2002",
     "U+2003", "U+2004", "U+2005", "U+2006", "U+2007", "U+2008", "U+2009",
     "U+200A", "U+2028", "U+2029", "U+202F", "U+205F", "U+3000"}

IsWhitespace(ch) == ch \in WhiteSpaceWritten \cup WhiteSpaceNamed

RECURSIVE TrimStart(_)
TrimStart(s) == IF s # << >> /\ IsWhitespace(Head(s)) THEN TrimStart(Tail(s)) ELSE s

RECURSIVE TrimEnd(_)
TrimEnd(s) ==
    IF s # << >> /\ IsWhitespace(s[Len(s)]) THEN TrimEnd(SubSeq(s, 1, Len(s) - 1)) ELSE s

\* str::trim
Trim(s) == TrimEnd(TrimStart(s))

\* str::split(','): the pieces between commas, empty pieces included
RECURSIVE SplitComma(_, _)
SplitComma(s, cur) ==
    IF s = << >> THEN <<cur>>
    ELSE IF Head(s) = "," THEN <<cur>> \o SplitComma(Tail(s), << >>)
    ELSE SplitComma(Tail(s), Append(cur, Head(s)))

RECURSIVE DropEmpty(_)
DropEmpty(parts) ==
    IF parts = << >> THEN << >>
    ELSE IF Head(parts) = << >> THEN DropEmpty(Tail(parts))
    ELSE <<Head(parts)>> \o DropEmpty(Tail(parts))

\* subscribe_utxo: split(',') . map(trim) . filter(!is_empty) . collect
ParseAddresses(query) ==
    DropEmpty([i \in 1..Len(SplitComma(query, << >>)) |-> Trim(SplitComma(query, << >>)[i])])

\* a mutant: no address list is rejected
RejectsNothing(addresses) == FALSE

\* subscribe_utxo: `if addresses.is_empty()`
RejectsAddresses(addresses) == addresses = << >>

\* `addresses` query strings the WebSocket client may send
SampleQueries ==
    { << >>, <<",">>, <<" ", ",", " ">>, <<"\t", ",", "\r", "\n">>, <<"a", ",", "b">>,
      <<"\t", "a", " ", ",", ",", "a", "\n">> }

\* JSON messages written to the socket (null is None)
WsError(text) == [type |-> "error", text |-> text, addresses |-> << >>,
                  added |-> << >>, removed |-> << >>]
WsSubscribed(addresses) == [type |-> "subscribed", text |-> "", addresses |-> addresses,
                            added |-> << >>, removed |-> << >>]

OutpointJson(outpoint) ==
    IF IsSome(outpoint)
    THEN Some([transaction_id |-> Unwrap(outpoint).transaction_id,
               index |-> Unwrap(outpoint).index])
    ELSE None

\* a mutant: absent values are filled in with the default (unwrap_or_default)
UtxoEntryJsonDefaulted(utxo) ==
    IF IsSome(utxo)
    THEN Some([amount |-> Unwrap(utxo).amount,
               script_public_key |->
                   IF IsSome(Unwrap(utxo).script_public_key)
                   THEN Some(Unwrap(Unwrap(utxo).script_public_key).script_public_key)
                   ELSE Some(""),
               block_daa_score |-> Unwrap(utxo).block_daa_score,
               is_coinbase |-> Unwrap(utxo).is_coinbase])
    ELSE Some([amount |-> 0, script_public_key |-> Some(""), block_daa_score |-> 0,
               is_coinbase |-> FALSE])

UtxoEntryJson(utxo) ==
    IF IsSome(utxo)
    THEN Some([amount |-> Unwrap(utxo).amount,
               script_public_key |->
                   IF IsSome(Unwrap(utxo).script_public_key)
                   THEN Some(Unwrap(Unwrap(utxo).script_public_key).script_public_key)
                   ELSE None,
               block_daa_score |-> Unwrap(utxo).block_daa_score,
               is_coinbase |-> Unwrap(utxo).is_coinbase])
    ELSE None

\* the "utxo_changed" message built from a UtxosChangedNotification
WsUtxoChanged(notification) ==
    [type |-> "utxo_changed", text |-> "", addresses |-> << >>,
     added |-> [i \in 1..Len(notification.added) |->
                  [address |-> notification.added[i].address,
                   outpoint |-> OutpointJson(notification.added[i].outpoint),
                   utxo_entry |-> UtxoEntryJson(notification.added[i].utxo_entry)]],
     removed |-> [i \in 1..Len(notification.removed) |->
                  [address |-> notification.removed[i].address,
                   outpoint |-> OutpointJson(notification.removed[i].outpoint)]]]

\* ---------------------------------------------------------------- state
VARIABLES
    COUNTER,             \* client.rs: static COUNTER of generate_request_id
    issued,              \* history: the ids generate_request_id returned, in order
    task,                \* one record per request being handled (see InitTask)
    streams,             \* the stream each task's message_stream call returned
    nodeMsgs,            \* number of envelopes the node has sent so far
    main,                \* main.rs: where main() is, and what it has set up
    LATENCY_HISTOGRAMS   \* metrics.rs: observations per endpoint

vars == <<COUNTER, issued, task, streams, nodeMsgs, main, LATENCY_HISTOGRAMS>>

\* pc: where the task's future is suspended; op: the operation; id: the id stamped
\* on its envelope; opens: message_stream calls; handed: the envelopes given to
\* the outbound stream; stream: the task whose stream it polls (0: no stream yet);
\* received: the items stream.next() yielded to it; result: the client method's
\* result; kind: the failure kind of the taxonomy; error: the RpcError the handler
\* returned; http: the HTTP reply; recorded: record_latency calls; query /
\* addresses: the `addresses` parameter and the list parsed from it; socket /
\* ws / closes: the WebSocket, the sends started on it (settled: the send has
\* resolved; ok: it resolved Ok) and the close() calls.
\* pc of the subscription: "idle"; "upgrading" (subscribe_utxo answered with the
\* upgrade, the callback has not run); "opening" (subscribe_utxo_changes awaited);
\* "announcing" / "failing" / "forwarding" / "reporting" (a send of "subscribed", of
\* "Failed to subscribe", of "utxo_changed", of "Stream error" awaited); "reading"
\* (stream.next() awaited); "closing" (socket.close() awaited); "done" (returned)
InitTask ==
    [pc |-> "idle", op |-> "", id |-> None, opens |-> 0,
     handed |-> << >>, stream |-> 0, received |-> << >>, result |-> None,
     kind |-> "", error |-> None, http |-> None, recorded |-> 0,
     query |-> << >>, addresses |-> << >>, socket |-> "none", ws |-> << >>, closes |-> 0]

\* ------------------------------------------------------------ the stream
\* fin: "none" (not opened), "open", "end" (the node closed it), "err" (the
\* transport failed), "dropped" (the client dropped it)
NoStream ==
    [owner |-> 0, envelopes |-> << >>, sent |-> << >>, fin |-> "none", read |-> 0,
     released |-> FALSE]

NewStream(owner, envelopes) ==
    [owner |-> owner, envelopes |-> envelopes, sent |-> << >>, fin |-> "open",
     read |-> 0, released |-> FALSE]

\* an envelope from the node: its payload, and (history) the stream the node sent it
\* on and its position there
NoMsg == [payload |-> None, on |-> 0, n |-> 0]

\* a mutant: the end of the stream is reported as a transport error
StreamNextEndAsErr(s) ==
    IF s.read < Len(s.sent) THEN [tag |-> "msg", msg |-> s.sent[s.read + 1], status |-> ""]
    ELSE IF s.fin \in {"end", "err"}
    THEN [tag |-> "err", msg |-> NoMsg, status |-> "transport error"]
    ELSE [tag |-> "pending", msg |-> NoMsg, status |-> ""]

\* a mutant: a stream that is not ready is given up as ended (a timeout)
StreamNextTimesOut(s) ==
    IF s.read < Len(s.sent) THEN [tag |-> "msg", msg |-> s.sent[s.read + 1], status |-> ""]
    ELSE IF s.fin = "err" THEN [tag |-> "err", msg |-> NoMsg, status |-> "transport error"]
    ELSE [tag |-> "none", msg |-> NoMsg, status |-> ""]

\* stream.next(): the next envelope, the transport error, the end, or not ready
StreamNext(s) ==
    IF s.read < Len(s.sent) THEN [tag |-> "msg", msg |-> s.sent[s.read + 1], status |-> ""]
    ELSE IF s.fin = "end" THEN [tag |-> "none", msg |-> NoMsg, status |-> ""]
    ELSE IF s.fin = "err" THEN [tag |-> "err", msg |-> NoMsg, status |-> "transport error"]
    ELSE [tag |-> "pending", msg |-> NoMsg, status |-> ""]

\* a mutant: every call polls the stream of the first task
RecvStreamShared(tk) == 1

\* a mutant: calls are multiplexed onto the subscription's stream
RecvStreamOfRelay(tk) == Relay

\* the stream a call polls: the one its own message_stream call returned
RecvStream(tk) == tk.stream

\* a mutant: the read position is not advanced
AdvanceReadStuck(s) == s

\* stream.next() took an envelope
AdvanceRead(s) == [s EXCEPT !.read = @ + 1]

\* a mutant: the stream is kept (stored in the client) when its owner returns
ReleaseLeaks(s) == s

\* the stream value is dropped: its buffers are freed with it
Release(s) == [s EXCEPT !.released = TRUE, !.sent = << >>, !.read = 0, !.fin = "dropped"]

\* ------------------------------------------------------------- main.rs
\* pc: "start" (before KaspaClient::new), "connected" (the client is built),
\* "serving" (axum::serve runs), "failed" (main returned Err and the process exits);
\* connects: KaspaClient::new calls; channel: the channel to the node is
\* established; listening: the TcpListener is bound
InitMain == [pc |-> "start", connects |-> 0, channel |-> FALSE, listening |-> FALSE]

\* a mutant: a failed connect is logged and main goes on without a channel
AfterConnectDegraded(m, ok) ==
    [m EXCEPT !.pc = "connected", !.connects = @ + 1, !.channel = ok]

\* `let kaspa_client = client::KaspaClient::new(&config.kaspa_rpc_url).await?;`
AfterConnect(m, ok) ==
    IF ok THEN [m EXCEPT !.pc = "connected", !.connects = @ + 1, !.channel = TRUE]
    ELSE [m EXCEPT !.pc = "failed", !.connects = @ + 1]

\* `config.bind_address.parse()?`, `TcpListener::bind(addr).await?`, `axum::serve`
AfterBind(m, ok) ==
    IF ok THEN [m EXCEPT !.pc = "serving", !.listening = TRUE]
    ELSE [m EXCEPT !.pc = "failed"]

\* requests are routed to the handlers while axum::serve runs
Serving == main.pc = "serving"

Init ==
    /\ COUNTER = CounterInit
    /\ main = InitMain
    /\ issued = << >>
    /\ task = [t \in AllTasks |-> InitTask]
    /\ streams = [t \in AllTasks |-> NoStream]
    /\ nodeMsgs = 0
    /\ LATENCY_HISTOGRAMS = [e \in HistogramEndpoints |-> 0]

\* metrics::record_latency, n times for `endpoint`
record_latency(hist, endpoint, n) ==
    IF endpoint \in DOMAIN hist THEN [hist EXCEPT ![endpoint] = @ + n] ELSE hist

\* a mutant: the envelope's id field is left at its default, 0
StampedDefaultId(tk, op, id, payload) ==
    [tk EXCEPT !.pc = "opening", !.op = op, !.id = Some(U64Zero),
               !.opens = @ + 1,
               !.handed = EnvelopeStream(KaspadRequest(U64Zero, payload))]

\* the task after its client method stamped the envelope and called message_stream
Stamped(tk, op, id, payload) ==
    [tk EXCEPT !.pc = "opening", !.op = op, !.id = Some(id),
               !.opens = @ + 1,
               !.handed = EnvelopeStream(KaspadRequest(id, payload))]

\* a client method up to its first await: generate_request_id (one atomic
\* fetch_add returning the previous value), the envelope, message_stream(once(..))
ClientCall(t, op, payload) ==
    /\ COUNTER' = fetch_add(COUNTER)
    /\ issued' = Append(issued, COUNTER)
    /\ task' = [task EXCEPT ![t] = Stamped(@, op, COUNTER, payload)]

\* Tasks are interchangeable: the requests are numbered in the order they arrive
Arrives(t) == Serving /\ task[t].pc = "idle" /\ \A u \in 1..(t - 1) : task[u].pc # "idle"

\* the task after its handler returned
Finished(tk, result) ==
    [tk EXCEPT !.pc = "done", !.result = Some(result),
               !.kind = HandlerOutcome(tk.op, result).kind,
               !.error = HandlerOutcome(tk.op, result).error,
               !.http = HandlerOutcome(tk.op, result).http,
               !.recorded = @ + HandlerOutcome(tk.op, result).recorded]

\* --------------------------------------------------------- unary actions
\* handlers::get_block up to the first await
GetBlock(t, hash, include_transactions) ==
    /\ Arrives(t)
    /\ IF ~is_valid_hash(hash)
       THEN /\ task' = [task EXCEPT ![t] =
                  [@ EXCEPT !.pc = "done", !.op = "get_block", !.kind = "InvalidArgument",
                            !.error = Some(RpcErr("BadRequest", "Invalid block hash format")),
                            !.http = Some(HttpError(RpcErr("BadRequest",
                                                           "Invalid block hash format")))]]
            /\ UNCHANGED <<COUNTER, issued>>
       ELSE ClientCall(t, "get_block",
                       RequestPayload("GetBlockRequest", hash, include_transactions,
                                      NoTransaction, FALSE, << >>))
    /\ UNCHANGED <<streams, nodeMsgs, LATENCY_HISTOGRAMS, main>>

\* handlers::submit_transaction up to the first await
SubmitTransaction(t, transaction, allow_orphan) ==
    /\ Arrives(t)
    /\ ClientCall(t, "submit_transaction",
                  RequestPayload("SubmitTransactionRequest", << >>, FALSE,
                                 convert_to_proto_transaction(transaction), allow_orphan, << >>))
    /\ UNCHANGED <<streams, nodeMsgs, LATENCY_HISTOGRAMS, main>>

\* handlers::get_dag_tips up to the first await
GetDagTips(t) ==
    /\ Arrives(t)
    /\ ClientCall(t, "get_dag_tips",
                  RequestPayload("GetBlockDagInfoRequest", << >>, FALSE, NoTransaction,
                                 FALSE, << >>))
    /\ UNCHANGED <<streams, nodeMsgs, LATENCY_HISTOGRAMS, main>>

\* KaspaClient::get_utxos_by_addresses up to the first await (no handler calls it)
GetUtxosByAddresses(t, addresses) ==
    /\ Arrives(t)
    /\ ClientCall(t, "get_utxos_by_addresses",
                  RequestPayload("GetUtxosByAddressesRequest", << >>, FALSE, NoTransaction,
                                 FALSE, addresses))
    /\ UNCHANGED <<streams, nodeMsgs, LATENCY_HISTOGRAMS, main>>

\* send_request: message_stream resolved with a stream
OpenOk(t) ==
    /\ task[t].pc = "opening"
    /\ task[t].op \in UnaryOps
    /\ streams' = [streams EXCEPT ![t] = NewStream(t, task[t].handed)]
    /\ task' = [task EXCEPT ![t] = [@ EXCEPT !.pc = "receiving", !.stream = t]]
    /\ UNCHANGED <<COUNTER, issued, nodeMsgs, LATENCY_HISTOGRAMS, main>>

\* send_request: message_stream resolved with a Status; the handler returns
OpenErr(t) ==
    /\ task[t].pc = "opening"
    /\ task[t].op \in UnaryOps
    /\ task' = [task EXCEPT ![t] =
          Finished(@, Err(RpcErr("Connection", "transport error"), "ConnectionError"))]
    /\ LATENCY_HISTOGRAMS' = record_latency(LATENCY_HISTOGRAMS, task[t].op,
                                            task'[t].recorded - task[t].recorded)
    /\ UNCHANGED <<COUNTER, issued, streams, nodeMsgs, main>>

\* the client method's result for the item stream.next() yielded
CallResult(op, item) ==
    IF FirstResult(item).ok THEN MatchResponse(op, FirstResult(item).val)
    ELSE FirstResult(item)

\* send_request: stream.next() resolved; the stream is dropped, the client method
\* matches the reply and the handler returns
Receive(t) ==
    /\ task[t].pc = "receiving"
    /\ task[t].op \in UnaryOps
    /\ RecvStream(task[t]) \in AllTasks
    /\ LET s == RecvStream(task[t])
           item == StreamNext(streams[s])
           polled == IF item.tag = "msg" THEN [streams EXCEPT ![s] = AdvanceRead(@)]
                     ELSE streams
       IN /\ item.tag # "pending"
          /\ streams' = [polled EXCEPT ![t] = Release(@)]
          /\ task' = [task EXCEPT ![t] =
                Finished([@ EXCEPT !.received = Append(@, item)],
                         CallResult(task[t].op, item))]
          /\ LATENCY_HISTOGRAMS' = record_latency(LATENCY_HISTOGRAMS, task[t].op,
                                                  task'[t].recorded - task[t].recorded)
    /\ UNCHANGED <<COUNTER, issued, nodeMsgs, main>>

\* ----------------------------------------------------------- the node
\* The envelopes the node may send next on stream s.  On a subscription any of
\* NodePayloads; on a unary stream any of NodePayloads first, and after that only
\* a repetition of its first envelope (the call never looks at a second one).
NodeChoices(s) ==
    IF s.envelopes = << >> THEN {}
    ELSE IF s.sent # << >> /\ Unwrap(s.envelopes[1].payload).variant # "NotifyUtxosChangedRequest"
    THEN {s.sent[1].payload}
    ELSE NodePayloads(Unwrap(s.envelopes[1].payload).variant)

\* the node puts an envelope on a stream
NodeSend(s, payload) ==
    /\ streams[s].fin = "open"
    /\ nodeMsgs < MaxNodeMsgs
    /\ payload \in NodeChoices(streams[s])
    /\ streams' = [streams EXCEPT ![s].sent =
            Append(@, [payload |-> payload, on |-> s, n |-> Len(@) + 1])]
    /\ nodeMsgs' = nodeMsgs + 1
    /\ UNCHANGED <<COUNTER, issued, task, LATENCY_HISTOGRAMS, main>>

\* The node ends a stream (fin = "end") or the transport fails (fin = "err").  A
\* stream is first-in first-out: its end or failure is seen only after the
\* envelopes buffered before it, so it is delivered once the buffer is drained.
NodeFinish(s, fin) ==
    /\ streams[s].fin = "open"
    /\ streams[s].read = Len(streams[s].sent)
    /\ fin \in {"end", "err"}
    /\ streams' = [streams EXCEPT ![s].fin = fin]
    /\ UNCHANGED <<COUNTER, issued, task, nodeMsgs, LATENCY_HISTOGRAMS, main>>

\* ------------------------------------------------------ the WebSocket
\* socket: "none", "open", "peer_closed" (the remote peer went away), "broken" (a
\* send has failed), "closed" (socket.close() returned).  A send is decided when it
\* completes: on an open socket it succeeds; after the peer went away it may still
\* be buffered (luck) or fail; on a broken socket it fails.
SendOk(socket, luck) == socket = "open" \/ (socket = "peer_closed" /\ luck)

AfterSend(socket, luck) == IF SendOk(socket, luck) THEN socket ELSE "broken"

\* socket.send(Message::Text(msg)) is called and awaited; src is the node's
\* envelope msg was built from (NoMsg: none)
SendStarted(tk, msg, src) ==
    [tk EXCEPT !.ws = Append(@, [msg |-> msg, src |-> src, ok |-> FALSE, settled |-> FALSE])]

\* the pending socket.send(..) resolved, Ok or Err
SendSettled(tk, luck) ==
    [tk EXCEPT !.ws[Len(tk.ws)].ok = SendOk(tk.socket, luck),
               !.ws[Len(tk.ws)].settled = TRUE,
               !.socket = AfterSend(@, luck)]

\* socket.close() is called and awaited
CloseStarted(tk) == [tk EXCEPT !.closes = @ + 1, !.pc = "closing"]

\* a mutant: instead of returning, the relay subscribes again
ClosedResubscribes(tk) == [tk EXCEPT !.socket = "closed", !.pc = "opening"]

\* socket.close() resolved and handle_utxo_subscription returns
Closed(tk) == [tk EXCEPT !.socket = "closed", !.pc = "done"]

\* a mutant: every envelope with a payload is taken for a notification
IsNotificationAnyPayload(response) == IsSome(response.payload)

IsNotification(response) ==
    IsSome(response.payload) /\ Unwrap(response.payload).variant = "UtxosChangedNotification"

\* subscribe_utxo: the handler parses the addresses and answers, 400 or the
\* upgrade with the callback registered by ws.on_upgrade; nothing of
\* handle_utxo_subscription has run when it returns
SubscribeUtxo(query) ==
    /\ Serving
    /\ task[Relay].pc = "idle"
    /\ task' = [task EXCEPT ![Relay] =
          IF RejectsAddresses(ParseAddresses(query))
          THEN [@ EXCEPT !.pc = "done", !.op = "subscribe_utxo", !.query = query,
                         !.kind = "InvalidArgument",
                         !.http = Some([status |-> 400,
                                        error |-> Some("No addresses provided"),
                                        data |-> None])]
          ELSE [@ EXCEPT !.pc = "upgrading", !.op = "subscribe_utxo", !.query = query,
                         !.addresses = ParseAddresses(query),
                         !.http = Some([status |-> 101, error |-> None, data |-> None])]]
    /\ UNCHANGED <<COUNTER, issued, streams, nodeMsgs, LATENCY_HISTOGRAMS, main>>

\* the upgrade completed and the callback runs: handle_utxo_subscription up to its
\* first await, inside subscribe_utxo_changes (the id, the envelope, message_stream)
HandleUtxoSubscription ==
    /\ task[Relay].pc = "upgrading"
    /\ COUNTER' = fetch_add(COUNTER)
    /\ issued' = Append(issued, COUNTER)
    /\ task' = [task EXCEPT ![Relay] =
          [Stamped(@, "subscribe_utxo", COUNTER,
                   RequestPayload("NotifyUtxosChangedRequest", << >>, FALSE,
                                  NoTransaction, FALSE, task[Relay].addresses))
           EXCEPT !.socket = "open"]]
    /\ UNCHANGED <<streams, nodeMsgs, LATENCY_HISTOGRAMS, main>>

\* subscribe_utxo_changes returned the stream: the send of the "subscribed"
\* message is started and awaited
SubscribeOk ==
    /\ task[Relay].pc = "opening"
    /\ task[Relay].op = "subscribe_utxo"
    /\ streams' = [streams EXCEPT ![Relay] = NewStream(Relay, task[Relay].handed)]
    /\ task' = [task EXCEPT ![Relay] =
          [SendStarted(@, WsSubscribed(task[Relay].addresses), NoMsg)
           EXCEPT !.pc = "announcing", !.stream = Relay]]
    /\ UNCHANGED <<COUNTER, issued, nodeMsgs, LATENCY_HISTOGRAMS, main>>

\* the send of "subscribed" resolved; its result is ignored (`let _ =`) and the
\* loop awaits stream.next()
SubscribedSent(luck) ==
    /\ task[Relay].pc = "announcing"
    /\ task' = [task EXCEPT ![Relay] = [SendSettled(@, luck) EXCEPT !.pc = "reading"]]
    /\ UNCHANGED <<COUNTER, issued, streams, nodeMsgs, LATENCY_HISTOGRAMS, main>>

\* a mutant: the "subscribed" message is sent before the result of
\* subscribe_utxo_changes is looked at
SubscribeErrAnnounced ==
    /\ task[Relay].pc = "opening"
    /\ task[Relay].op = "subscribe_utxo"
    /\ task' = [task EXCEPT ![Relay] =
          [SendStarted(SendSettled(SendStarted(@, WsSubscribed(task[Relay].addresses),
                                               NoMsg), TRUE),
                       WsError("Failed to subscribe: Connection error: transport error"),
                       NoMsg)
           EXCEPT !.pc = "failing",
                  !.result = Some(Err(RpcErr("Connection", "transport error"),
                                      "ConnectionError")),
                  !.error = Some(RpcErr("Connection", "transport error")),
                  !.kind = "ConnectionError"]]
    /\ UNCHANGED <<COUNTER, issued, streams, nodeMsgs, LATENCY_HISTOGRAMS, main>>

\* subscribe_utxo_changes failed: the send of the error message is started and
\* awaited
SubscribeErr ==
    /\ task[Relay].pc = "opening"
    /\ task[Relay].op = "subscribe_utxo"
    /\ task' = [task EXCEPT ![Relay] =
          [SendStarted(@, WsError("Failed to subscribe: Connection error: transport error"),
                       NoMsg)
           EXCEPT !.pc = "failing",
                  !.result = Some(Err(RpcErr("Connection", "transport error"),
                                      "ConnectionError")),
                  !.error = Some(RpcErr("Connection", "transport error")),
                  !.kind = "ConnectionError"]]
    /\ UNCHANGED <<COUNTER, issued, streams, nodeMsgs, LATENCY_HISTOGRAMS, main>>

\* the send of an error message resolved ("Failed to subscribe", or "Stream error"
\* followed by break): its result is ignored, socket.close() is called and awaited
ErrorSent(luck) ==
    /\ task[Relay].pc \in {"failing", "reporting"}
    /\ task' = [task EXCEPT ![Relay] = CloseStarted(SendSettled(@, luck))]
    /\ UNCHANGED <<COUNTER, issued, streams, nodeMsgs, LATENCY_HISTOGRAMS, main>>

\* `while let Some(response) = stream.next().await` resolved: the loop body up to
\* its next await, or the end of the loop up to the await of socket.close()
RelayNext ==
    /\ task[Relay].pc = "reading"
    /\ LET tk == [task[Relay] EXCEPT !.received = Append(@, StreamNext(streams[Relay]))]
           item == StreamNext(streams[Relay])
       IN CASE item.tag = "pending" -> FALSE
            [] item.tag = "none" ->
                 /\ task' = [task EXCEPT ![Relay] = CloseStarted(tk)]
                 /\ UNCHANGED streams
            [] item.tag = "err" ->
                 /\ task' = [task EXCEPT ![Relay] =
                       [SendStarted(tk, WsError("Stream error: " \o item.status), NoMsg)
                        EXCEPT !.pc = "reporting"]]
                 /\ UNCHANGED streams
            [] item.tag = "msg" /\ ~IsNotification(item.msg) ->
                 /\ task' = [task EXCEPT ![Relay] = tk]
                 /\ streams' = [streams EXCEPT ![Relay] = AdvanceRead(@)]
            [] item.tag = "msg" /\ IsNotification(item.msg) ->
                 /\ task' = [task EXCEPT ![Relay] =
                       [SendStarted(tk, WsUtxoChanged(Unwrap(item.msg.payload)), item.msg)
                        EXCEPT !.pc = "forwarding"]]
                 /\ streams' = [streams EXCEPT ![Relay] = AdvanceRead(@)]
    /\ UNCHANGED <<COUNTER, issued, nodeMsgs, LATENCY_HISTOGRAMS, main>>

\* the send of a "utxo_changed" message resolved: Ok, and the loop awaits
\* stream.next() again; Err, and the loop is left (break) for socket.close()
UtxoChangedSent(luck) ==
    /\ task[Relay].pc = "forwarding"
    /\ task' = [task EXCEPT ![Relay] =
          IF SendOk(task[Relay].socket, luck)
          THEN [SendSettled(@, luck) EXCEPT !.pc = "reading"]
          ELSE CloseStarted(SendSettled(@, luck))]
    /\ UNCHANGED <<COUNTER, issued, streams, nodeMsgs, LATENCY_HISTOGRAMS, main>>

\* socket.close() resolved: handle_utxo_subscription returns and its stream, if
\* it has one, is dropped
CloseReturned ==
    /\ task[Relay].pc = "closing"
    /\ task' = [task EXCEPT ![Relay] = Closed(@)]
    /\ streams' = [streams EXCEPT ![Relay] = IF @.fin = "none" THEN @ ELSE Release(@)]
    /\ UNCHANGED <<COUNTER, issued, nodeMsgs, LATENCY_HISTOGRAMS, main>>

\* the remote peer closes the WebSocket
PeerClose ==
    /\ task[Relay].socket = "open"
    /\ task' = [task EXCEPT ![Relay].socket = "peer_closed"]
    /\ UNCHANGED <<COUNTER, issued, streams, nodeMsgs, LATENCY_HISTOGRAMS, main>>

\* ------------------------------------------------------------ start-up
\* main: KaspaClient::new resolved, with the client or with RpcError::Connection
Connect(ok) ==
    /\ main.pc = "start"
    /\ main' = AfterConnect(main, ok)
    /\ UNCHANGED <<COUNTER, issued, task, streams, nodeMsgs, LATENCY_HISTOGRAMS>>

\* main: the router is built, the address parsed and bound, axum::serve entered;
\* or the parse or the bind failed
Listen(ok) ==
    /\ main.pc = "connected"
    /\ main' = AfterBind(main, ok)
    /\ UNCHANGED <<COUNTER, issued, task, streams, nodeMsgs, LATENCY_HISTOGRAMS>>

StartStep == \E ok \in BOOLEAN : Connect(ok) \/ Listen(ok)

\* ------------------------------------------------------- specifications
UnaryStep ==
    \/ \E t \in Tasks, h \in SampleHashes : GetBlock(t, h, TRUE)
    \/ \E t \in Tasks : SubmitTransaction(t, SampleTransaction, FALSE)
    \/ \E t \in Tasks : GetDagTips(t)
    \/ \E t \in Tasks : GetUtxosByAddresses(t, <<<<"a">>>>)
    \/ \E t \in Tasks : OpenOk(t)
    \/ \E t \in Tasks : OpenErr(t)
    \/ \E t \in Tasks : Receive(t)

RelayStep ==
    \/ \E q \in SampleQueries : SubscribeUtxo(q)
    \/ HandleUtxoSubscription
    \/ SubscribeOk
    \/ SubscribeErr
    \/ RelayNext
    \/ \E luck \in BOOLEAN : SubscribedSent(luck)
    \/ \E luck \in BOOLEAN : ErrorSent(luck)
    \/ \E luck \in BOOLEAN : UtxoChangedSent(luck)
    \/ CloseReturned
    \/ PeerClose

NodeStep ==
    \/ \E s \in AllTasks, p \in AllPayloads : NodeSend(s, p)
    \/ \E s \in AllTasks, f \in {"end", "err"} : NodeFinish(s, f)

\* the gateway: HTTP calls, the WebSocket subscription and the node
Next == StartStep \/ UnaryStep \/ RelayStep \/ NodeStep

Spec == Init /\ [][Next]_vars

\* the unary call adapter alone: concurrent HTTP calls against the node
NextUnary == StartStep \/ UnaryStep \/ NodeStep

SpecUnary == Init /\ [][NextUnary]_vars

\* the whole gateway, calls and subscription together, in the runs where the node
\* sends no envelope (it only ends streams) and the WebSocket peer stays connected
NextSilent ==
    \/ StartStep
    \/ UnaryStep
    \/ \E q \in {<<"\t", ",", "\r", "\n">>, <<"a", ",", "b">>} : SubscribeUtxo(q)
    \/ HandleUtxoSubscription
    \/ SubscribeOk
    \/ SubscribeErr
    \/ RelayNext
    \/ SubscribedSent(TRUE)
    \/ ErrorSent(TRUE)
    \/ CloseReturned
    \/ \E s \in AllTasks, f \in {"end", "err"} : NodeFinish(s, f)

SpecSilent == Init /\ [][NextSilent]_vars

\* ---------------------------------------------- the id generator alone
\* Values of COUNTER around every carry and around the wrap: the `low` least
\* significant limbs at their maximum less `below` in the last, `high` in the others
CounterNear(low, below, high) ==
    [i \in 1..NumLimbs |->
        IF i = NumLimbs THEN LimbBase - 1 - below
        ELSE IF i > NumLimbs - low THEN LimbBase - 1
        ELSE high]

CounterStarts ==
    {CounterInit} \cup
    { CounterNear(low, below, high) :
        low \in 1..NumLimbs, below \in 0..2, high \in {0, 1, LimbBase - 1} }

\* the process after some number of calls: COUNTER is at one of CounterStarts
InitCounter ==
    /\ COUNTER \in CounterStarts
    /\ issued = << >>
    /\ task = [t \in AllTasks |-> InitTask]
    /\ streams = [t \in AllTasks |-> NoStream]
    /\ nodeMsgs = 0
    /\ main = InitMain
    /\ LATENCY_HISTOGRAMS = [e \in HistogramEndpoints |-> 0]

\* generate_request_id: COUNTER.fetch_add(1, Relaxed) returns the previous value
GenerateRequestId ==
    /\ Len(issued) < MaxCalls
    /\ COUNTER' = fetch_add(COUNTER)
    /\ issued' = Append(issued, COUNTER)
    /\ UNCHANGED <<task, streams, nodeMsgs, main, LATENCY_HISTOGRAMS>>

SpecCounter == InitCounter /\ [][GenerateRequestId]_vars

\* one HTTP or client call against the node, with the runtime's guarantee that a
\* task awaiting stream.next() is woken and run once the stream has an item or has
\* finished
NextCall ==
    \/ StartStep
    \/ \E h \in SampleHashes : GetBlock(1, h, TRUE)
    \/ SubmitTransaction(1, SampleTransaction, FALSE)
    \/ GetDagTips(1)
    \/ GetUtxosByAddresses(1, <<<<"a">>>>)
    \/ OpenOk(1)
    \/ OpenErr(1)
    \/ Receive(1)
    \/ NodeStep

SpecCallFair == Init /\ [][NextCall]_vars /\ WF_vars(Receive(1))

\* one HTTP call and the subscription side by side, against the node
NextPair ==
    \/ StartStep
    \/ \E h \in SampleHashes : GetBlock(1, h, TRUE)
    \/ SubmitTransaction(1, SampleTransaction, FALSE)
    \/ GetDagTips(1)
    \/ GetUtxosByAddresses(1, <<<<"a">>>>)
    \/ OpenOk(1)
    \/ OpenErr(1)
    \/ Receive(1)
    \/ RelayStep
    \/ NodeStep

SpecPair == Init /\ [][NextPair]_vars

\* the subscription relay alone: one WebSocket connection against the node
NextRelay == StartStep \/ RelayStep \/ NodeStep

SpecRelay == Init /\ [][NextRelay]_vars

\* ================================================================ claims
\* the tasks whose client method was entered (the adapter was invoked)
Invoked(t) == IsSome(task[t].id)

\* the response variant a request variant implies, by the protocol's naming
ImpliedVariant(requestVariant) ==
    CASE requestVariant = "GetBlockRequest" -> "GetBlockResponse"
      [] requestVariant = "SubmitTransactionRequest" -> "SubmitTransactionResponse"
      [] requestVariant = "GetBlockDagInfoRequest" -> "GetBlockDagInfoResponse"
      [] requestVariant = "GetUtxosByAddressesRequest" -> "GetUtxosByAddressesResponse"

RequestVariantOf(t) == Unwrap(task[t].handed[1].payload).variant

\* C1: every unary call that reached the adapter makes exactly one message_stream
\* call and hands exactly one envelope to it, whatever its outcome; it takes at
\* most one item from the stream, and only from the stream that call opened.
C1_OneOpenOneSend ==
    \A t \in Tasks :
        /\ task[t].opens <= 1
        /\ Len(task[t].received) <= 1
        /\ Invoked(t) =>
              /\ task[t].opens = 1
              /\ Len(task[t].handed) = 1
              /\ task[t].handed[1].id = Unwrap(task[t].id)
        /\ streams[t].fin # "none" => Len(streams[t].envelopes) = 1
        /\ task[t].received # << >> =>
              /\ task[t].stream = t
              /\ streams[t].owner = t
              /\ streams[t].envelopes = task[t].handed

\* C1 witness: a call completed with the first envelope although the node had put
\* two envelopes on its stream
C1_Witness ==
    /\ task[1].pc = "done"
    /\ Len(task[1].received) = 1
    /\ task[1].received[1].tag = "msg"
    /\ task[2].pc = "idle"
    /\ nodeMsgs = 2

\* the first reply of task t does not carry the variant its request implies
Mismatched(t) ==
    /\ task[t].received # << >>
    /\ task[t].received[1].tag = "msg"
    /\ \/ ~IsSome(task[t].received[1].msg.payload)
       \/ Unwrap(task[t].received[1].msg.payload).variant
             # ImpliedVariant(RequestVariantOf(t))

\* C2: a unary call whose first reply has another payload variant than the one its
\* request implies, or no payload, returns the protocol-mismatch failure
\* (InvalidResponse "Expected ..."), never a successful payload.
C2_MismatchFails ==
    \A t \in Tasks :
        (task[t].pc = "done" /\ Mismatched(t)) =>
            /\ ~Unwrap(task[t].result).ok
            /\ Unwrap(task[t].result).kind = "ProtocolMismatch"
            /\ Unwrap(task[t].result).err.variant = "InvalidResponse"
            /\ IsSome(task[t].http) => Unwrap(task[t].http).data = None

\* C2 witness: one call got an envelope without payload, another a reply of another kind
C2_Witness ==
    /\ task[1].pc = "done" /\ Mismatched(1)
    /\ ~IsSome(task[1].received[1].msg.payload)
    /\ task[2].pc = "done" /\ Mismatched(2)
    /\ IsSome(task[2].received[1].msg.payload)

\* C3: every envelope a call took was sent by the node on that call's own stream,
\* and a successful call returns the payload of that envelope.
C3_NoCrossTalk ==
    \A t \in Tasks :
        \A i \in 1..Len(task[t].received) :
            task[t].received[i].tag = "msg" =>
                /\ task[t].received[i].msg.on = t
                /\ (task[t].pc = "done" /\ Unwrap(task[t].result).ok) =>
                      Some(Unwrap(task[t].result).val) = task[t].received[i].msg.payload

\* C3 witness: the second call completed with its reply while the first call's
\* reply was still waiting on the first call's stream
C3_Witness ==
    /\ task[2].pc = "done"
    /\ task[2].received # << >>
    /\ task[2].received[1].tag = "msg"
    /\ Unwrap(task[2].result).ok
    /\ task[1].pc = "receiving"
    /\ Len(streams[1].sent) = 1

\* C4: the ids returned are never 0 and strictly increase in the order returned
\* (so none is returned twice); concurrent calls and the subscription hold
\* different ids.
C4_IdsUnique ==
    /\ \A i \in 1..Len(issued) : issued[i] # U64Zero
    /\ \A i \in 1..Len(issued) : \A j \in (i + 1)..Len(issued) : U64Less(issued[i], issued[j])
    /\ \A t \in AllTasks : \A u \in AllTasks :
          (t # u /\ IsSome(task[t].id) /\ IsSome(task[u].id)) => task[t].id # task[u].id
    /\ \A t \in AllTasks : IsSome(task[t].id) => \E i \in 1..Len(issued) : issued[i] = Unwrap(task[t].id)

\* C4 witness: two calls and the subscription in flight together, the
\* subscription's id drawn between the ids of the two calls
C4_Witness ==
    /\ Len(issued) = 3
    /\ task[1].pc = "opening" /\ task[1].id = Some(issued[1])
    /\ task[Relay].pc = "opening" /\ task[Relay].id = Some(issued[2])
    /\ task[2].pc = "opening" /\ task[2].id = Some(issued[3])

\* the query has no address in it: nothing but commas, blanks, tabs and line ends
BlankQuery(query) == \A i \in 1..Len(query) : query[i] \in {",", " ", "\t", "\r", "\n"}

\* C5: a subscription whose address list is empty is answered 400 Bad Request (the
\* invalid-argument status) before the client is entered: no id is drawn, no
\* stream is opened, nothing is handed to the node, no socket is upgraded.
C5_EmptyRejected ==
    (task[Relay].pc # "idle" /\ BlankQuery(task[Relay].query)) =>
        /\ task[Relay].pc = "done"
        /\ task[Relay].kind = "InvalidArgument"
        /\ IsSome(task[Relay].http) /\ Unwrap(task[Relay].http).status = 400
        /\ task[Relay].opens = 0
        /\ task[Relay].handed = << >>
        /\ ~IsSome(task[Relay].id)
        /\ streams[Relay].fin = "none"
        /\ task[Relay].socket = "none"

\* C5 witness: the query of a tab, a comma and a line end (CR LF) was rejected
C5_Witness ==
    /\ task[Relay].pc = "done"
    /\ task[Relay].query = <<"\t", ",", "\r", "\n">>
    /\ Unwrap(task[Relay].http).status = 400

\* C6, as claimed: once the peer has closed the WebSocket of an Active
\* subscription, the relay takes no further item from the node stream.
C6_NoReadAfterDisconnect ==
    [][(task[Relay].pc = "reading" /\ task[Relay].socket = "peer_closed")
          => task'[Relay].received = task[Relay].received]_vars

HttpHandlers == {"get_block", "submit_transaction", "get_dag_tips"}

\* C7, as claimed: when a handler's unary call has completed, with success or
\* failure, record_latency was called exactly once for it.
C7_LatencyRecordedOnce ==
    \A t \in Tasks :
        (task[t].pc = "done" /\ Invoked(t) /\ task[t].op \in HttpHandlers) =>
            task[t].recorded = 1

Taxonomy ==
    {"ConnectionError", "EmptyResponse", "ProtocolMismatch", "RemoteError", "InvalidArgument"}

\* task t failed with a kind of the taxonomy
Failed(t) == task[t].pc = "done" /\ IsSome(task[t].error) /\ task[t].kind \in Taxonomy

\* what the caller observes of a failure: the error variant and the HTTP status
Boundary(t) ==
    <<Unwrap(task[t].error).variant, into_response(Unwrap(task[t].error)).status>>

\* C8, as claimed: two failures of different kinds never show the same error
\* variant and HTTP status.
C8_DistinctStatus ==
    \A t \in Tasks : \A u \in Tasks :
        (Failed(t) /\ Failed(u) /\ task[t].kind # task[u].kind) => Boundary(t) # Boundary(u)

\* C8, amended: two failures of different kinds show different (variant, status)
\* pairs, except EmptyResponse and ProtocolMismatch, which are both InvalidResponse
\* with status 500 and differ in the message only.
C8_DistinctExceptEmptyMismatch ==
    \A t \in Tasks : \A u \in Tasks :
        (Failed(t) /\ Failed(u) /\ task[t].kind # task[u].kind) =>
            \/ Boundary(t) # Boundary(u)
            \/ /\ {task[t].kind, task[u].kind} = {"EmptyResponse", "ProtocolMismatch"}
               /\ Boundary(t) = <<"InvalidResponse", 500>>
               /\ Unwrap(task[t].error).msg # Unwrap(task[u].error).msg

\* C8 witness: an empty-response failure and a protocol-mismatch failure side by side
C8_Witness ==
    /\ Failed(1) /\ task[1].kind = "EmptyResponse"
    /\ Failed(2) /\ task[2].kind = "ProtocolMismatch"
    /\ Boundary(1) = Boundary(2)

\* the notifications that reached the consumer: the successful "utxo_changed" sends
Forwarded == SelectSeq(task[Relay].ws, LAMBDA e : e.msg.type = "utxo_changed" /\ e.ok)

\* C9: the notifications forwarded are, in the order forwarded, built from
\* change-notification envelopes the relay took from its node stream, at strictly
\* increasing positions of that stream: none reordered, none duplicated.
C9_InOrder ==
    \A i \in 1..Len(Forwarded) :
        /\ Forwarded[i].src.on = Relay
        /\ IsNotification(Forwarded[i].src)
        /\ \E k \in 1..Len(task[Relay].received) :
              /\ task[Relay].received[k].tag = "msg"
              /\ task[Relay].received[k].msg = Forwarded[i].src
        /\ Forwarded[i].msg.added = WsUtxoChanged(Unwrap(Forwarded[i].src.payload)).added
        /\ \A j \in (i + 1)..Len(Forwarded) : Forwarded[i].src.n < Forwarded[j].src.n

\* C9 witness: two different notifications were forwarded
C9_Witness ==
    /\ Len(Forwarded) = 2
    /\ Forwarded[1].msg # Forwarded[2].msg

\* C10: a unary call whose stream ended before any item fails with the
\* empty-response failure (InvalidResponse "Empty response stream"); it returns no
\* payload.
C10_EmptyStreamFails ==
    \A t \in Tasks :
        (task[t].pc = "done" /\ task[t].received # << >> /\ task[t].received[1].tag = "none") =>
            /\ ~Unwrap(task[t].result).ok
            /\ Unwrap(task[t].result).kind = "EmptyResponse"
            /\ Unwrap(task[t].result).err = RpcErr("InvalidResponse", "Empty response stream")
            /\ IsSome(task[t].http) =>
                  /\ Unwrap(task[t].http).status = 500
                  /\ Unwrap(task[t].http).data = None

\* C10 witness: a get_block call completed on a stream the node ended at once
C10_Witness ==
    /\ task[1].pc = "done"
    /\ task[1].op = "get_block"
    /\ task[1].received # << >>
    /\ task[1].received[1].tag = "none"

\* the call of task t failed at message_stream: it was invoked and has no stream
OpenFailed(t) == task[t].pc = "done" /\ Invoked(t) /\ streams[t].fin = "none"

\* the first item the stream of task t yielded was a transport error
FirstItemFailed(t) ==
    task[t].pc = "done" /\ task[t].received # << >> /\ task[t].received[1].tag = "err"

\* the call of task t returned RpcError::Connection(cause), answered 502 with the cause
ConnectionFailure(t, cause) ==
    /\ ~Unwrap(task[t].result).ok
    /\ Unwrap(task[t].result).kind = "ConnectionError"
    /\ Unwrap(task[t].result).err = RpcErr("Connection", cause)
    /\ IsSome(task[t].http) =>
          /\ Unwrap(task[t].http).status = 502
          /\ Unwrap(task[t].http).error = Some(cause)
          /\ Unwrap(task[t].http).data = None

\* C11: a unary call whose message_stream call failed, or whose stream yielded a
\* transport error first, returns Connection(cause) with the transport's text as
\* the cause (HTTP 502); it is neither a protocol mismatch nor a remote error and
\* returns no payload.
C11_TransportFailure ==
    \A t \in Tasks :
        /\ OpenFailed(t) => ConnectionFailure(t, "transport error")
        /\ FirstItemFailed(t) => ConnectionFailure(t, task[t].received[1].status)

\* C11 witness: the first call failed at message_stream, the second one on a
\* transport error of its stream
C11_Witness ==
    /\ OpenFailed(1) /\ task[1].op = "get_dag_tips"
    /\ FirstItemFailed(2) /\ task[2].op = "get_block"

\* the first reply of task t has the variant its request implies
Matched(t) ==
    /\ task[t].pc = "done"
    /\ task[t].received # << >>
    /\ task[t].received[1].tag = "msg"
    /\ IsSome(task[t].received[1].msg.payload)
    /\ Unwrap(task[t].received[1].msg.payload).variant = ImpliedVariant(RequestVariantOf(t))

FirstPayload(t) == Unwrap(task[t].received[1].msg.payload)

\* C12: when the first reply has the expected variant, the client method returns
\* Kaspa(message) (HTTP 400, no data) if the reply's error field is set, with the
\* node's message, and returns the reply itself, unchanged, if it is not set.
C12_RemoteError ==
    \A t \in Tasks :
        Matched(t) =>
            IF IsSome(FirstPayload(t).error)
            THEN /\ ~Unwrap(task[t].result).ok
                 /\ Unwrap(task[t].result).kind = "RemoteError"
                 /\ Unwrap(task[t].result).err = RpcErr("Kaspa", Unwrap(FirstPayload(t).error))
                 /\ IsSome(task[t].http) =>
                       /\ Unwrap(task[t].http).status = 400
                       /\ Unwrap(task[t].http).error = FirstPayload(t).error
                       /\ Unwrap(task[t].http).data = None
            ELSE /\ Unwrap(task[t].result).ok
                 /\ Unwrap(task[t].result).val = FirstPayload(t)

\* C12 witness: one call got a reply with the node's error field set, another call
\* of the same kind a reply without it
C12_Witness ==
    /\ Matched(1) /\ IsSome(FirstPayload(1).error)
    /\ Matched(2) /\ ~IsSome(FirstPayload(2).error)
    /\ task[1].op = "get_block" /\ task[2].op = "get_block"

\* the relay took an item from its node stream in this step
RelayRead == Len(task'[Relay].received) = Len(task[Relay].received) + 1

\* the envelope is not a change notification: another variant, or no payload
NotChangeNotification(msg) ==
    \/ ~IsSome(msg.payload)
    \/ Unwrap(msg.payload).variant # "UtxosChangedNotification"

\* C13: when the Active relay takes an envelope that is not a change notification,
\* nothing is sent on the socket, the socket and the stream stay as they are, and
\* the relay goes on reading after that envelope.
C13_OthersIgnored ==
    [][(/\ task[Relay].pc = "reading"
        /\ RelayRead
        /\ StreamNext(streams[Relay]).tag = "msg"
        /\ NotChangeNotification(StreamNext(streams[Relay]).msg))
          => /\ task'[Relay].pc = "reading"
             /\ task'[Relay].ws = task[Relay].ws
             /\ task'[Relay].socket = task[Relay].socket
             /\ task'[Relay].closes = 0
             /\ streams'[Relay].fin = streams[Relay].fin
             /\ streams'[Relay].read = streams[Relay].read + 1]_vars

\* C13 witness: the relay skipped an envelope without payload, then forwarded a
\* notification
C13_Witness ==
    /\ task[Relay].pc = "reading"
    /\ Len(task[Relay].received) = 2
    /\ task[Relay].received[1].tag = "msg"
    /\ ~IsSome(task[Relay].received[1].msg.payload)
    /\ Len(task[Relay].ws) = 2
    /\ task[Relay].ws[2].msg.type = "utxo_changed"
    /\ task[Relay].ws[2].src = task[Relay].received[2].msg

\* C14: a transport error is the last item the relay takes: it sends one
\* "Stream error: ..." message, the last on the socket, then closes the socket,
\* returns and drops the stream; it never reads, forwards or subscribes again, and
\* message_stream is called at most once per subscription.
C14_ErrorCloses ==
    /\ task[Relay].opens <= 1
    /\ \A k \in 1..Len(task[Relay].received) :
          task[Relay].received[k].tag = "err" =>
              /\ k = Len(task[Relay].received)
              /\ task[Relay].pc \in {"reporting", "closing", "done"}
              /\ task[Relay].opens = 1
              /\ task[Relay].ws[Len(task[Relay].ws)].msg
                    = WsError("Stream error: " \o task[Relay].received[k].status)
              /\ \A i \in 1..(Len(task[Relay].ws) - 1) : task[Relay].ws[i].msg.type # "error"
              /\ task[Relay].pc = "reporting" =>
                    (~task[Relay].ws[Len(task[Relay].ws)].settled /\ task[Relay].closes = 0)
              /\ task[Relay].pc = "closing" =>
                    (task[Relay].ws[Len(task[Relay].ws)].settled /\ task[Relay].closes = 1)
              /\ task[Relay].pc = "done" =>
                    /\ task[Relay].closes = 1
                    /\ task[Relay].socket = "closed"
                    /\ streams[Relay].released

\* C14 witness: a notification was forwarded, then the stream failed and the error
\* message reached the consumer
C14_Witness ==
    /\ task[Relay].pc = "done"
    /\ Len(task[Relay].received) = 2
    /\ task[Relay].received[2].tag = "err"
    /\ Len(task[Relay].ws) = 3
    /\ task[Relay].ws[2].msg.type = "utxo_changed" /\ task[Relay].ws[2].ok
    /\ task[Relay].ws[3].msg.type = "error" /\ task[Relay].ws[3].ok

\* the last item the relay took from its stream is the end of the stream
EndTaken ==
    /\ task[Relay].received # << >>
    /\ task[Relay].received[Len(task[Relay].received)].tag = "none"

\* C15: when the relay finds its stream ended by the node (every envelope taken,
\* no error), it sends nothing more and calls socket.close(); from then on it
\* reads and sends nothing, no error message is on the socket, and once close()
\* has returned the relay has returned, the socket is closed and the stream dropped.
C15_EndCloses ==
    /\ [][(/\ task[Relay].pc = "reading"
            /\ RelayRead
            /\ streams[Relay].fin = "end"
            /\ streams[Relay].read = Len(streams[Relay].sent))
              => /\ task'[Relay].pc = "closing"
                 /\ task'[Relay].ws = task[Relay].ws
                 /\ task'[Relay].closes = 1]_vars
    /\ [][EndTaken => (task'[Relay].ws = task[Relay].ws
                          /\ task'[Relay].received = task[Relay].received)]_vars
    /\ [](EndTaken =>
             /\ task[Relay].pc \in {"closing", "done"}
             /\ task[Relay].closes = 1
             /\ \A i \in 1..Len(task[Relay].ws) : task[Relay].ws[i].msg.type # "error"
             /\ task[Relay].pc = "done" =>
                   (task[Relay].socket = "closed" /\ streams[Relay].released))

\* C15 witness: a notification whose entry has no UTXO entry was forwarded, then
\* the node ended the stream and the relay closed
C15_Witness ==
    /\ task[Relay].pc = "done"
    /\ Len(task[Relay].received) = 2
    /\ task[Relay].received[2].tag = "none"
    /\ Len(task[Relay].ws) = 2
    /\ task[Relay].ws[2].msg.type = "utxo_changed"
    /\ task[Relay].ws[2].msg.added[1].utxo_entry = None
    /\ task[Relay].socket = "closed"

\* the value emitted under `key` of a JSON object; "missing" if it has no such key
Emitted(json, key) == IF key \in DOMAIN json THEN json[key] ELSE "missing"

\* the outpoint of the node's entry and the emitted one agree: both absent (null),
\* or both present with the same transaction id and index
SameOutpoint(entry, json) ==
    IF IsSome(entry.outpoint)
    THEN /\ Emitted(json, "outpoint") # "missing"
         /\ IsSome(json.outpoint)
         /\ Unwrap(json.outpoint).transaction_id = Unwrap(entry.outpoint).transaction_id
         /\ Unwrap(json.outpoint).index = Unwrap(entry.outpoint).index
    ELSE Emitted(json, "outpoint") = None

\* the same for the UTXO entry and, inside it, the script public key
SameUtxoEntry(entry, json) ==
    IF IsSome(entry.utxo_entry)
    THEN /\ Emitted(json, "utxo_entry") # "missing"
         /\ IsSome(json.utxo_entry)
         /\ Unwrap(json.utxo_entry).amount = Unwrap(entry.utxo_entry).amount
         /\ Unwrap(json.utxo_entry).block_daa_score = Unwrap(entry.utxo_entry).block_daa_score
         /\ Unwrap(json.utxo_entry).is_coinbase = Unwrap(entry.utxo_entry).is_coinbase
         /\ IF IsSome(Unwrap(entry.utxo_entry).script_public_key)
            THEN Unwrap(json.utxo_entry).script_public_key
                   = Some(Unwrap(Unwrap(entry.utxo_entry).script_public_key).script_public_key)
            ELSE Unwrap(json.utxo_entry).script_public_key = None
    ELSE Emitted(json, "utxo_entry") = None

\* the node's notification a forwarded message was built from
SourceOf(e) == Unwrap(e.src.payload)

\* every added entry is emitted field by field, absent as null, present with its value
AddedFaithful(e) ==
    /\ Len(e.msg.added) = Len(SourceOf(e).added)
    /\ \A i \in 1..Len(e.msg.added) :
          /\ e.msg.added[i].address = SourceOf(e).added[i].address
          /\ SameOutpoint(SourceOf(e).added[i], e.msg.added[i])
          /\ SameUtxoEntry(SourceOf(e).added[i], e.msg.added[i])

\* C16, as claimed: in every forwarded notification each optional sub-field of each
\* entry, added or removed, is null if the node's entry had none and carries the
\* node's value if it had one (a removed entry without UTXO entry may be emitted
\* with null or without the key).
C16_OptionalsFaithful ==
    \A k \in 1..Len(Forwarded) :
        /\ AddedFaithful(Forwarded[k])
        /\ Len(Forwarded[k].msg.removed) = Len(SourceOf(Forwarded[k]).removed)
        /\ \A i \in 1..Len(Forwarded[k].msg.removed) :
              /\ SameOutpoint(SourceOf(Forwarded[k]).removed[i], Forwarded[k].msg.removed[i])
              /\ IsSome(SourceOf(Forwarded[k]).removed[i].utxo_entry) =>
                    SameUtxoEntry(SourceOf(Forwarded[k]).removed[i], Forwarded[k].msg.removed[i])

\* C16, amended: the same for the added entries and for the outpoint of the removed
\* entries; a removed entry is emitted as its address and outpoint only, without a
\* UTXO entry key, whether the node's entry had a UTXO entry or not.
C16_OptionalsFaithfulButRemovedEntry ==
    \A k \in 1..Len(Forwarded) :
        /\ AddedFaithful(Forwarded[k])
        /\ Len(Forwarded[k].msg.removed) = Len(SourceOf(Forwarded[k]).removed)
        /\ \A i \in 1..Len(Forwarded[k].msg.removed) :
              /\ Forwarded[k].msg.removed[i].address = SourceOf(Forwarded[k]).removed[i].address
              /\ SameOutpoint(SourceOf(Forwarded[k]).removed[i], Forwarded[k].msg.removed[i])
              /\ Emitted(Forwarded[k].msg.removed[i], "utxo_entry") = "missing"

\* C16 witness: a forwarded notification with an added entry without script public
\* key, and removed entries with and without outpoint and UTXO entry
C16_Witness ==
    /\ Len(Forwarded) >= 1
    /\ SourceOf(Forwarded[1]).added = <<EntryNoScript, EntryFull>>
    /\ SourceOf(Forwarded[1]).removed = <<EntryFull, EntryBare>>

\* the hash is exactly 64 hexadecimal characters
SixtyFourHex(hash) ==
    /\ Len(hash) = 64
    /\ \A i \in 1..Len(hash) :
          \/ hash[i] \in {"0", "1", "2", "3", "4", "5", "6", "7", "8", "9"}
          \/ hash[i] \in {"a", "b", "c", "d", "e", "f"}
          \/ hash[i] \in {"A", "B", "C", "D", "E", "F"}

\* task t was answered 400 "Invalid block hash format" without entering the client
RejectedLocally(tk) ==
    /\ tk.pc = "done"
    /\ tk.kind = "InvalidArgument"
    /\ tk.error = Some(RpcErr("BadRequest", "Invalid block hash format"))
    /\ Unwrap(tk.http).status = 400
    /\ tk.opens = 0
    /\ tk.handed = << >>
    /\ ~IsSome(tk.id)

\* C17: a get_block request whose hash is not 64 hexadecimal characters is answered
\* 400 Bad Request by the handler itself: no id is drawn, message_stream is not
\* called, no envelope is handed to the node, no stream exists for the request.
C17_BadHashRejected ==
    [][\A t \in Tasks : \A h \in SampleHashes :
          (GetBlock(t, h, TRUE) /\ ~SixtyFourHex(h)) =>
              /\ RejectedLocally(task'[t])
              /\ COUNTER' = COUNTER
              /\ issued' = issued
              /\ streams'[t].fin = "none"]_vars

\* C17 witness: the first request was rejected for its hash while the second, with
\* a valid hash, went on to the node
C17_Witness ==
    /\ RejectedLocally(task[1]) /\ task[1].op = "get_block"
    /\ streams[1].fin = "none"
    /\ task[2].op = "get_block" /\ task[2].pc = "receiving"
    /\ SixtyFourHex(Unwrap(task[2].handed[1].payload).hash)

\* some request has reached a handler
Served == \E t \in AllTasks : task[t].pc # "idle"

\* C18: KaspaClient::new is called at most once; the listener is bound and requests
\* are served only after it returned the client (the channel is established); if
\* it failed, main has returned: nothing listens and no request is ever handled.
C18_ConnectBeforeServe ==
    /\ main.connects <= 1
    /\ main.listening => (main.channel /\ main.connects = 1)
    /\ Serving => (main.channel /\ main.listening)
    /\ Served => (main.channel /\ main.listening)
    /\ (main.connects = 1 /\ ~main.channel) =>
          (main.pc = "failed" /\ ~main.listening /\ ~Served)

\* C18 witness: the connect failed and main returned
C18_Witness ==
    /\ main.pc = "failed"
    /\ main.connects = 1
    /\ ~main.channel

\* the stream exists: message_stream returned it and it was not dropped yet
Live(s) == streams[s].fin \in {"open", "end", "err"}

\* C19: a live stream belongs to the one call or subscription that opened it, and
\* that owner has not returned; no other task polls it; once the call or the
\* relay has returned, its stream (if it had one) was dropped.
C19_NoStreamOutlivesOwner ==
    \A s \in AllTasks :
        /\ Live(s) =>
              /\ ~streams[s].released
              /\ streams[s].owner = s
              /\ task[s].pc \in {"receiving", "announcing", "reading", "forwarding",
                                 "reporting", "closing"}
              /\ task[s].opens = 1
              /\ \A t \in AllTasks : task[t].stream = s => t = s
        /\ task[s].pc \in {"idle", "upgrading", "opening", "failing"} =>
              streams[s].fin = "none"
        /\ task[s].pc = "done" =>
              \/ streams[s].fin = "none" /\ task[s].stream = 0
              \/ streams[s].fin = "dropped" /\ streams[s].released /\ task[s].stream = s

\* C19 witness: a call returned with its reply and the relay closed on a failed
\* send; both streams were dropped
C19_Witness ==
    /\ task[1].pc = "done"
    /\ task[1].received # << >> /\ task[1].received[1].tag = "msg"
    /\ streams[1].released
    /\ task[Relay].pc = "done"
    /\ task[Relay].ws # << >> /\ ~task[Relay].ws[Len(task[Relay].ws)].ok
    /\ task[Relay].ws[Len(task[Relay].ws)].msg.type = "utxo_changed"
    /\ streams[Relay].released

\* the address list carried by the subscribe command the relay handed to the node
CarriedAddresses == Unwrap(task[Relay].handed[1].payload).addresses

\* C20, as claimed: the address list handed to subscribe_utxo_changes and carried
\* by the NotifyUtxosChangedRequest is non-empty, in the order of the query, and
\* has no address twice.
C20_AddressesDistinct ==
    Invoked(Relay) =>
        /\ CarriedAddresses # << >>
        /\ CarriedAddresses = task[Relay].addresses
        /\ \A i \in 1..Len(CarriedAddresses) : \A j \in 1..Len(CarriedAddresses) :
              CarriedAddresses[i] = CarriedAddresses[j] => i = j

\* C21: a step of one call or subscription changes, besides its own record and
\* stream, only the id counter (COUNTER and the history of ids drawn): the channel
\* set up by main and the record and stream of every other call or subscription
\* stay as they are.
C21_OnlyCounterShared ==
    [][\A t \in AllTasks :
          task'[t] # task[t] =>
              /\ main' = main
              /\ nodeMsgs' = nodeMsgs
              /\ \A u \in AllTasks \ {t} :
                    /\ task'[u] = task[u]
                    /\ streams'[u] = streams[u]]_vars

\* C21 witness: the call got its reply and returned while the subscription was
\* Active with an envelope waiting unread on its stream
C21_Witness ==
    /\ task[1].pc = "done"
    /\ IsSome(task[1].result) /\ Unwrap(task[1].result).ok
    /\ task[Relay].pc = "reading"
    /\ Len(streams[Relay].sent) = 1
    /\ streams[Relay].read = 0

\* the stream of task t has something for stream.next(): an envelope, its end,
\* or a transport error
StreamReady(t) ==
    \/ streams[t].read < Len(streams[t].sent)
    \/ streams[t].fin \in {"end", "err"}

\* the call returned one outcome: Ok with the payload, or one typed failure
OneOutcome(tk) ==
    /\ tk.pc = "done"
    /\ Len(tk.result) = 1
    /\ Len(tk.received) = 1
    /\ IF Unwrap(tk.result).ok
       THEN Some(Unwrap(tk.result).val) = tk.received[1].msg.payload
       ELSE /\ Unwrap(tk.result).kind
                 \in {"ConnectionError", "EmptyResponse", "ProtocolMismatch", "RemoteError"}
            /\ Unwrap(tk.result).err.variant \in {"Connection", "InvalidResponse", "Kaspa"}

\* C22: a call awaiting its stream changes only when the stream has an item or has
\* finished, and then returns exactly one outcome, which stays; while the node
\* neither answers nor ends the stream the call stays suspended (no timeout); and
\* once the stream has an item or has finished, the call does return.
C22_ResolvesOnStream ==
    /\ [][\A t \in Tasks :
            (task[t].pc = "receiving" /\ task'[t] # task[t]) =>
                (StreamReady(t) /\ OneOutcome(task'[t]))]_vars
    /\ [][\A t \in Tasks : task[t].pc = "done" => task'[t] = task[t]]_vars
    /\ \A t \in Tasks : (task[t].pc = "receiving" /\ StreamReady(t)) ~> (task[t].pc = "done")

\* C22 witness: the call returned a reply, the first of two envelopes the node had
\* put on its stream
C22_Witness ==
    /\ OneOutcome(task[1])
    /\ Unwrap(task[1].result).ok
    /\ nodeMsgs = 2

U64Max == [i \in 1..NumLimbs |-> LimbBase - 1]

\* c + 1 modulo 2^64, by ripple carry from limb i down to the most significant
RECURSIVE U64Inc(_, _)
U64Inc(c, i) ==
    IF i = 0 THEN c
    ELSE IF c[i] = LimbBase - 1 THEN U64Inc([c EXCEPT ![i] = 0], i - 1)
    ELSE [c EXCEPT ![i] = @ + 1]

U64Succ(c) == U64Inc(c, NumLimbs)

\* the small number k as a u64
U64Of(k) == [i \in 1..NumLimbs |-> IF i = NumLimbs THEN k ELSE 0]

\* C23: each call returns the value the counter held and leaves it one higher,
\* modulo 2^64: from 1 the k-th call returns k; 0 is returned only by the call
\* that follows the one returning 2^64 - 1, and a value is repeated or followed by
\* a smaller one only across that wrap.
C23_CountsUntilWrap ==
    /\ issued # << >> => COUNTER = U64Succ(issued[Len(issued)])
    /\ \A j \in 2..Len(issued) : issued[j] = U64Succ(issued[j - 1])
    /\ (issued # << >> /\ issued[1] = CounterInit) =>
          \A k \in 1..Len(issued) : issued[k] = U64Of(k)
    /\ \A j \in 1..Len(issued) :
          issued[j] = U64Zero => (j > 1 /\ issued[j - 1] = U64Max)
    /\ \A i \in 1..Len(issued) : \A j \in (i + 1)..Len(issued) :
          \/ U64Less(issued[i], issued[j])
          \/ \E m \in i..(j - 1) : issued[m] = U64Max

\* C23 witness: the calls returned 2^64 - 1, then 0, then 1
C23_Witness ==
    /\ Len(issued) = 3
    /\ issued[1] = U64Max
    /\ issued[2] = U64Zero
    /\ issued[3] = CounterInit

\* the request of task t was turned down by its handler's own validation
LocallyRejected(t) == task[t].pc = "done" /\ task[t].kind = "InvalidArgument"

\* the request of task t reached a client method
ReachedClient(t) == task[t].pc \notin {"idle", "upgrading"} /\ ~LocallyRejected(t)

\* C24: as many ids have been drawn as requests have reached the client, failed
\* opens included; each such request put exactly one envelope on its way, stamped
\* with an id drawn for it and for no other request; a request rejected by local
\* validation drew no id and built no envelope.
C24_OneIdPerEnvelope ==
    /\ Len(issued) = Cardinality({t \in AllTasks : ReachedClient(t)})
    /\ \A t \in AllTasks :
          ReachedClient(t) =>
              /\ Len(task[t].handed) = 1
              /\ Cardinality({i \in 1..Len(issued) : issued[i] = task[t].handed[1].id}) = 1
              /\ \A u \in AllTasks \ {t} :
                    ReachedClient(u) => task[u].handed[1].id # task[t].handed[1].id
    /\ \A t \in AllTasks :
          LocallyRejected(t) => (task[t].handed = << >> /\ task[t].opens = 0)

\* C24 witness: a get_block with a bad hash and a subscription without addresses
\* were rejected, a call whose open failed is the only request that drew an id
C24_Witness ==
    /\ LocallyRejected(1) /\ task[1].op = "get_block"
    /\ LocallyRejected(Relay)
    /\ task[2].pc = "done" /\ task[2].kind = "ConnectionError" /\ streams[2].fin = "none"
    /\ Len(issued) = 1

\* the messages the relay has written to the socket, by type
WsTypes == [i \in 1..Len(task[Relay].ws) |-> task[Relay].ws[i].msg.type]

\* subscribe_utxo_changes failed: the relay was invoked and has returned without a stream
SubscribeFailed == task[Relay].pc = "done" /\ Invoked(Relay) /\ streams[Relay].fin = "none"

\* C25: "subscribed" is written only once the stream was opened, as the first
\* message, with the parsed addresses, so before every notification; if the open
\* failed, the only message written is one "Failed to subscribe" error, close() is
\* called once that send has resolved, and the socket is closed when the relay
\* returns.
C25_SubscribedAfterOpen ==
    /\ \A i \in 1..Len(WsTypes) :
          WsTypes[i] = "subscribed" =>
              /\ i = 1
              /\ streams[Relay].fin # "none"
              /\ task[Relay].ws[i].msg = WsSubscribed(CarriedAddresses)
    /\ \A i \in 1..Len(WsTypes) :
          WsTypes[i] = "utxo_changed" => (i > 1 /\ WsTypes[1] = "subscribed")
    /\ streams[Relay].fin # "none" => (WsTypes # << >> /\ WsTypes[1] = "subscribed")
    /\ (Invoked(Relay) /\ task[Relay].pc # "opening" /\ streams[Relay].fin = "none") =>
          /\ WsTypes = <<"error">>
          /\ task[Relay].ws[1].msg
                = WsError("Failed to subscribe: Connection error: transport error")
          /\ task[Relay].closes = IF task[Relay].ws[1].settled THEN 1 ELSE 0
    /\ SubscribeFailed =>
          /\ task[Relay].ws[1].settled
          /\ task[Relay].closes = 1
          /\ task[Relay].socket = "closed"

\* C25 witness: the open failed and the error message reached the consumer
C25_Witness ==
    /\ SubscribeFailed
    /\ Len(task[Relay].ws) = 1
    /\ task[Relay].ws[1].ok

\* some send on the subscription's socket has failed
SendHasFailed ==
    \E i \in 1..Len(task[Relay].ws) : task[Relay].ws[i].settled /\ ~task[Relay].ws[i].ok

\* C26, as claimed: once a send on the socket has failed, the relay attempts no
\* further send and takes no further item from the node stream; close() is called
\* at most once, and exactly once by the time the relay has returned.
C26_NothingAfterFailedSend ==
    [][/\ SendHasFailed =>
             /\ task'[Relay].ws = task[Relay].ws
             /\ task'[Relay].received = task[Relay].received
       /\ task'[Relay].closes <= 1
       /\ (task'[Relay].pc = "done" /\ task'[Relay].socket # "none") =>
             task'[Relay].closes = 1]_vars

====
